---- MODULE Spec2Model ----
(***************************************************************************)
(* A model of ld-relay (src/ld-relay.go): the credential registry that the *)
(* environment supervisors fill while the HTTP listener serves requests,   *)
(* the authorization of requests against it, the status endpoint, and the  *)
(* per-environment store / SSE channel that the upstream client writes to. *)
(*                                                                         *)
(* Strings that the code pattern-matches (Authorization headers, keys) are *)
(* sequences of one-character strings, so that the regular expression is   *)
(* modelled by what it matches.                                            *)
(***************************************************************************)
EXTENDS Integers, Sequences, FiniteSets, TLC

\* ------------------------------------------------------------------------
\* Strings
\* ------------------------------------------------------------------------

Rep(c, n) == [i \in 1..n |-> c]

HexChars == {"a", "b", "c", "d", "e", "f",
             "0", "1", "2", "3", "4", "5", "6", "7", "8", "9"}

LowerChars == {"a", "b", "c", "d", "e", "f", "g", "h", "i", "j", "k", "l", "m",
               "n", "o", "p", "q", "r", "s", "t", "u", "v", "w", "x", "y", "z"}

VariantChars == {"8", "9", "a", "A", "b", "B"}

\* The literal "api_key " that may precede the token.
ApiKeyPrefix == <<"a", "p", "i", "_", "k", "e", "y", " ">>

HasPrefix(s, p) == Len(s) >= Len(p) /\ SubSeq(s, 1, Len(p)) = p

\* A version-4 UUID in lower-case hex built from one hex digit.
Uuid(c) == Rep(c, 8) \o <<"-">> \o Rep(c, 4) \o <<"-", "4">> \o Rep(c, 3)
           \o <<"-", "8">> \o Rep(c, 3) \o <<"-">> \o Rep(c, 12)

\* ------------------------------------------------------------------------
\* Configuration (Config, EnvConfig)
\* ------------------------------------------------------------------------

NoString == <<>>

\* [environment "A"]: a server key, a mobile key and a browser environment
\* id; [environment "B"]: only a server key, of an opaque shape.
Environment ==
    [A |-> [ApiKey    |-> <<"s", "d", "k", "-">> \o Uuid("a"),
            MobileKey |-> <<"m", "o", "b", "-">> \o Uuid("b"),
            EnvId     |-> Rep("5", 24)],
     B |-> [ApiKey    |-> <<"s", "d", "k", "-", "B">>,
            MobileKey |-> NoString,
            EnvId     |-> NoString]]

Envs == DOMAIN Environment

\* ------------------------------------------------------------------------
\* State
\* ------------------------------------------------------------------------

VARIABLES
    ExitOnError,            \* c.Main.ExitOnError
    IgnoreConnectionErrors, \* c.Main.IgnoreConnectionErrors
    SendEvents,             \* c.Events.SendEvents
    clients,                \* map[string]flagReader, by server key
    mobileClients,          \* map[string]flagReader, by mobile key
    clientSideClients,      \* map[string]flagReader, by environment id
    handlers,               \* map[string]http.Handler: the stream handlers
    eventHandlers,          \* map[string]http.Handler: the event forwarders
    pc,                     \* where each environment's goroutine stands
    err,                    \* the err MakeCustomClient returned to it
    initialized,            \* what each environment's client.Initialized() says
    listening,              \* main has reached http.ListenAndServe
    alive,                  \* the process has not exited
    resp,                   \* the answer a handler is writing, if any
    req,                    \* what else the request being served carries
    goalsFresh,             \* the goals URLs upstream has answered cacheably
    authorizedBefore,       \* the requests that have been let through so far
    store,                  \* each environment's feature store: key -> item
    inited,                 \* each store's initialized()
    upLog,                  \* the events each upstream client has received
    pending,                \* the event a store adapter is about to publish
    pubLog,                 \* the events published on each channel
    subChannel,             \* the channel each subscriber is connected to
    joined,                 \* how many events its channel had when it connected
    recv,                   \* the events each subscriber has been sent
    subKey,                 \* the Authorization header it connected with
    backlog                 \* the events in its outbound buffer

regVars == <<ExitOnError, IgnoreConnectionErrors, SendEvents, clients,
             mobileClients, clientSideClients, handlers, eventHandlers, pc,
             err, initialized, listening, alive, resp, req, goalsFresh,
             authorizedBefore>>

streamVars == <<store, inited, upLog, pending, pubLog, subChannel, joined, recv,
               subKey, backlog>>

vars == <<regVars, streamVars>>

\* ------------------------------------------------------------------------
\* Go maps and the values they hold
\* ------------------------------------------------------------------------

\* The nil interface value.
Nil == [kind |-> "nil", env |-> "none"]

\* Faulty variant: the goroutine stores a nil client.
ClientIsNil(e) == Nil

\* The *LDClient that environment e's goroutine got from MakeCustomClient,
\* which returns the client also when it returns an error.
Client(e) == [kind |-> "client", env |-> e]

\* Faulty variant: every stream handler serves one and the same channel.
StreamHandlerOfOneChannel(e) == [kind |-> "stream", env |-> "B"]

\* publisher.Handler(envConfig.ApiKey): the stream handler of e's channel.
StreamHandler(e) == [kind |-> "stream", env |-> e]

\* newRelayHandler(envConfig.ApiKey, c): e's event forwarder.
RelayHandler(e) == [kind |-> "events", env |-> e]

EmptyMap == [k \in {} |-> Nil]

\* m[k] of a Go map: the zero value when k is absent.
MapGet(m, k) == IF k \in DOMAIN m THEN m[k] ELSE Nil

\* Faulty variant: an assignment leaves the map with the assigned key only.
MapPutForgetsOthers(m, k, v) == [x \in {k} |-> v]

\* m[k] = v
MapPut(m, k, v) == [x \in (DOMAIN m) \cup {k} |-> IF x = k THEN v ELSE m[x]]

\* ------------------------------------------------------------------------
\* Authorization (fetchAuthToken, authorizeMethod)
\* ------------------------------------------------------------------------

\* [a-f0-9]{8}-[a-f0-9]{4}-4[a-f0-9]{3}-[89aAbB][a-f0-9]{3}-[a-f0-9]{12}
UuidShape(s) ==
    /\ Len(s) = 36
    /\ \A i \in 1..36 :
         IF i \in {9, 14, 19, 24} THEN s[i] = "-"
         ELSE IF i = 15 THEN s[i] = "4"
         ELSE IF i = 20 THEN s[i] \in VariantChars
         ELSE s[i] \in HexChars

\* (?:[a-z]{3}-)? followed by the UUID: the capture group of the pattern.
\* The two alternatives differ in length, so at most one applies.
TokenShape(s) ==
    \/ UuidShape(s)
    \/ /\ Len(s) = 40
       /\ \A i \in 1..3 : s[i] \in LowerChars
       /\ s[4] = "-"
       /\ UuidShape(SubSeq(s, 5, 40))

\* Faulty variant: the capture group takes any non-empty token, (.+).
uuidHeaderPatternAnyToken(authHdr) ==
    LET rest == IF HasPrefix(authHdr, ApiKeyPrefix)
                THEN SubSeq(authHdr, Len(ApiKeyPrefix) + 1, Len(authHdr))
                ELSE authHdr
    IN  IF Len(rest) > 0 THEN <<authHdr, rest>> ELSE <<>>

\* Faulty variant: the "api_key " prefix is required, not optional.
uuidHeaderPatternPrefixRequired(authHdr) ==
    LET rest == SubSeq(authHdr, Len(ApiKeyPrefix) + 1, Len(authHdr))
    IN  IF HasPrefix(authHdr, ApiKeyPrefix) /\ TokenShape(rest)
        THEN <<authHdr, rest>>
        ELSE <<>>

\* uuidHeaderPattern.FindStringSubmatch(authHdr): <<whole match, group 1>>,
\* or the empty sequence when the header does not match.  A token never
\* starts with "api_key " (its fourth or ninth character is "-"), so the
\* optional prefix is taken whenever it is there.
uuidHeaderPattern(authHdr) ==
    LET rest == IF HasPrefix(authHdr, ApiKeyPrefix)
                THEN SubSeq(authHdr, Len(ApiKeyPrefix) + 1, Len(authHdr))
                ELSE authHdr
    IN  IF TokenShape(rest) THEN <<authHdr, rest>> ELSE <<>>

fetchAuthToken(authHdr) ==
    LET match == uuidHeaderPattern(authHdr)
    IN  IF Len(match) = 2
        THEN [token |-> match[2], err |-> FALSE]
        ELSE [token |-> NoString, err |-> TRUE]

\* Faulty variant: the ctx == nil test is left out, so a key that the map
\* does not hold, or holds with nil, is let through.
authorizeMethodNoNilCheck(authKeyMap, authHdr) ==
    LET t == fetchAuthToken(authHdr)
    IN  IF t.err
        THEN [status |-> 401, body |-> "", ctx |-> Nil, err |-> TRUE]
        ELSE [status |-> 0, body |-> "",
              ctx |-> MapGet(authKeyMap, t.token), err |-> FALSE]

\* What authorizeMethod answers and returns for a map and a header.
authorizeMethod(authKeyMap, authHdr) ==
    LET t == fetchAuthToken(authHdr)
    IN  IF t.err
        THEN [status |-> 401, body |-> "", ctx |-> Nil, err |-> TRUE]
        ELSE LET ctx == MapGet(authKeyMap, t.token)
             IN  IF ctx = Nil
                 THEN [status |-> 401, body |-> "not configured for key",
                       ctx |-> Nil, err |-> TRUE]
                 ELSE [status |-> 0, body |-> "", ctx |-> ctx, err |-> FALSE]

\* The header-authorized routes and the map each mux handler was built on.
AuthEndpoints == {"/flags", "/bulk", "/sdk/eval", "/msdk/eval"}

\* Faulty variant: /bulk is authorized against the stream handlers' map.
EndpointMapBulkOnHandlers(ep) ==
    CASE ep = "/bulk"      -> handlers
      [] ep = "/flags"     -> handlers
      [] ep = "/sdk/eval"  -> clients
      [] ep = "/msdk/eval" -> mobileClients

EndpointMap(ep) ==
    CASE ep = "/bulk"      -> eventHandlers
      [] ep = "/flags"     -> handlers
      [] ep = "/sdk/eval"  -> clients
      [] ep = "/msdk/eval" -> mobileClients

\* The keys that requests present: the configured ones and one that no
\* environment has.
Credentials == {Environment.A.ApiKey, Environment.A.MobileKey,
                Environment.B.ApiKey, Uuid("f")}

Headers == {NoString} \cup Credentials
           \cup {ApiKeyPrefix \o k : k \in Credentials}

\* ------------------------------------------------------------------------
\* Initial state: main up to the go statements
\* ------------------------------------------------------------------------

\* Faulty variant: the clients map starts empty.
PrePopulateNothing == EmptyMap

\* for _, envConfig := range c.Environment { clients[envConfig.ApiKey] = nil }
PrePopulate == [k \in {Environment[e].ApiKey : e \in Envs} |-> Nil]

NoEntries == [k \in {} |-> "none"]

\* No request is being served.
NoResp == [endpoint |-> "none", header |-> NoString, status |-> 0,
           body |-> "", invoked |-> FALSE, ctx |-> Nil,
           environments |-> NoEntries, overall |-> "none"]

\* A request that carries nothing but its Authorization header: no method
\* of interest, no Content-Type, no user, no environment id in its path; and
\* a handler that has not decoded a user, called the evaluator, panicked or
\* contacted upstream, and has written no body of a known type.
NoReq == [method |-> "none", contentType |-> "", encoding |-> "none",
          user |-> "none", envId |-> NoString, decoded |-> FALSE,
          evaluated |-> FALSE, evalKey |-> "none", panicked |-> FALSE,
          bodyType |-> "none", upstream |-> FALSE]

InitRegistry ==
    /\ ExitOnError \in BOOLEAN
    /\ IgnoreConnectionErrors \in BOOLEAN
    /\ SendEvents \in BOOLEAN
    /\ clients = PrePopulate
    /\ mobileClients = EmptyMap
    /\ clientSideClients = EmptyMap
    /\ handlers = EmptyMap
    /\ eventHandlers = EmptyMap
    /\ pc = [e \in Envs |-> "make"]
    /\ err = [e \in Envs |-> FALSE]
    /\ initialized = [e \in Envs |-> FALSE]
    /\ listening = FALSE
    /\ alive = TRUE
    /\ resp = NoResp
    /\ req = NoReq
    /\ goalsFresh = {}
    /\ authorizedBefore = {}


\* ------------------------------------------------------------------------
\* The environment goroutines (main, the go func per environment)
\* ------------------------------------------------------------------------

HasMobileKey(e) == Environment[e].MobileKey # NoString

HasEnvId(e) == Environment[e].EnvId # NoString

\* The registry map that e's goroutine is about to assign to, if any.
WritingTo(e) ==
    CASE pc[e] = "reg_clients"                     -> "clients"
      [] pc[e] = "reg_mobile" /\ HasMobileKey(e)   -> "mobileClients"
      [] pc[e] = "reg_browser" /\ HasEnvId(e)      -> "clientSideClients"
      [] pc[e] = "reg_handler"                     -> "handlers"
      [] pc[e] = "reg_events" /\ SendEvents        -> "eventHandlers"
      [] OTHER                                     -> "none"

\* The process runs, and no handler is at the instant of its answer: a
\* handler reads the registry at one instant, resp holds its answer at that
\* instant, and the threads go on once it has returned.
Running == alive /\ resp = NoResp

\* The upstream client of e receives its first data: Initialized() turns
\* true, during the startup wait or any time after it.
ClientInitialized(e) ==
    /\ Running
    /\ ~initialized[e]
    /\ initialized' = [initialized EXCEPT ![e] = TRUE]
    /\ UNCHANGED <<streamVars, authorizedBefore, req, goalsFresh, ExitOnError,
                   IgnoreConnectionErrors, SendEvents, clients,
                   mobileClients, clientSideClients, handlers, eventHandlers,
                   pc, err, listening, alive, resp>>

\* client, err := ld.MakeCustomClient(envConfig.ApiKey, clientConfig, 10s):
\* returns without error once the client is initialised, and with an error
\* when the wait ends first.
MakeCustomClient(e) ==
    /\ Running
    /\ pc[e] = "make"
    /\ err' = [err EXCEPT ![e] = ~initialized[e]]
    /\ pc' = [pc EXCEPT ![e] = "reg_clients"]
    /\ UNCHANGED <<streamVars, authorizedBefore, req, goalsFresh, ExitOnError,
                   IgnoreConnectionErrors, SendEvents, clients,
                   mobileClients, clientSideClients, handlers, eventHandlers,
                   initialized, listening, alive, resp>>

\* clients[envConfig.ApiKey] = client
RegisterClient(e) ==
    /\ Running
    /\ pc[e] = "reg_clients"
    /\ clients' = MapPut(clients, Environment[e].ApiKey, Client(e))
    /\ pc' = [pc EXCEPT ![e] = "reg_mobile"]
    /\ UNCHANGED <<streamVars, authorizedBefore, req, goalsFresh, ExitOnError,
                   IgnoreConnectionErrors, SendEvents,
                   mobileClients, clientSideClients, handlers, eventHandlers,
                   err, initialized, listening, alive, resp>>

\* if envConfig.MobileKey != nil && *envConfig.MobileKey != "" { ... }
RegisterMobileClient(e) ==
    /\ Running
    /\ pc[e] = "reg_mobile"
    /\ mobileClients' = IF HasMobileKey(e)
                        THEN MapPut(mobileClients, Environment[e].MobileKey,
                                    Client(e))
                        ELSE mobileClients
    /\ pc' = [pc EXCEPT ![e] = "reg_browser"]
    /\ UNCHANGED <<streamVars, authorizedBefore, req, goalsFresh, ExitOnError,
                   IgnoreConnectionErrors, SendEvents, clients,
                   clientSideClients, handlers, eventHandlers, err,
                   initialized, listening, alive, resp>>

\* if envConfig.EnvId != nil && *envConfig.EnvId != "" { ... }
RegisterClientSideClient(e) ==
    /\ Running
    /\ pc[e] = "reg_browser"
    /\ clientSideClients' = IF HasEnvId(e)
                            THEN MapPut(clientSideClients,
                                        Environment[e].EnvId, Client(e))
                            ELSE clientSideClients
    /\ pc' = [pc EXCEPT ![e] = "check"]
    /\ UNCHANGED <<streamVars, authorizedBefore, req, goalsFresh, ExitOnError,
                   IgnoreConnectionErrors, SendEvents, clients,
                   mobileClients, handlers, eventHandlers, err, initialized,
                   listening, alive, resp>>

\* Faulty variant: the error is never looked at, the handlers are always
\* registered.
ErrorBranchIgnoresError(e) == "reg_handler"

\* Faulty variant: exit-on-error is looked at before ignore-connection-errors.
ErrorBranchExitFirst(e) ==
    IF err[e]
    THEN IF ExitOnError THEN "exit"
         ELSE IF IgnoreConnectionErrors THEN "reg_handler" ELSE "done"
    ELSE "reg_handler"

\* Which way the goroutine goes at
\* if err != nil && !c.Main.IgnoreConnectionErrors { if ExitOnError {exit} }
\* else { ... }.
ErrorBranch(e) ==
    IF err[e] /\ ~IgnoreConnectionErrors
    THEN IF ExitOnError THEN "exit" ELSE "done"
    ELSE "reg_handler"

CheckError(e) ==
    /\ Running
    /\ pc[e] = "check"
    /\ pc' = [pc EXCEPT ![e] = ErrorBranch(e)]
    /\ alive' = (ErrorBranch(e) # "exit")
    /\ UNCHANGED <<streamVars, authorizedBefore, req, goalsFresh, ExitOnError,
                   IgnoreConnectionErrors, SendEvents, clients,
                   mobileClients, clientSideClients, handlers, eventHandlers,
                   err, initialized, listening, resp>>

\* handlers[envConfig.ApiKey] = publisher.Handler(envConfig.ApiKey)
RegisterHandler(e) ==
    /\ Running
    /\ pc[e] = "reg_handler"
    /\ handlers' = MapPut(handlers, Environment[e].ApiKey, StreamHandler(e))
    /\ pc' = [pc EXCEPT ![e] = "reg_events"]
    /\ UNCHANGED <<streamVars, authorizedBefore, req, goalsFresh, ExitOnError,
                   IgnoreConnectionErrors, SendEvents, clients,
                   mobileClients, clientSideClients, eventHandlers, err,
                   initialized, listening, alive, resp>>

\* if c.Events.SendEvents { eventHandlers[envConfig.ApiKey] = ... }
RegisterEventHandler(e) ==
    /\ Running
    /\ pc[e] = "reg_events"
    /\ eventHandlers' = IF SendEvents
                        THEN MapPut(eventHandlers, Environment[e].ApiKey,
                                    RelayHandler(e))
                        ELSE eventHandlers
    /\ pc' = [pc EXCEPT ![e] = "done"]
    /\ UNCHANGED <<streamVars, authorizedBefore, req, goalsFresh, ExitOnError,
                   IgnoreConnectionErrors, SendEvents, clients,
                   mobileClients, clientSideClients, handlers, err,
                   initialized, listening, alive, resp>>

\* ------------------------------------------------------------------------
\* The listener and the requests it serves
\* ------------------------------------------------------------------------

\* main goes on to http.ListenAndServe without waiting for the goroutines.
ListenAndServe ==
    /\ Running
    /\ ~listening
    /\ listening' = TRUE
    /\ UNCHANGED <<streamVars, authorizedBefore, req, goalsFresh, ExitOnError,
                   IgnoreConnectionErrors, SendEvents, clients,
                   mobileClients, clientSideClients, handlers, eventHandlers,
                   pc, err, initialized, alive, resp>>

\* A request on a header-authorized route: the mux handler's authorizeMethod
\* wrapper, then the wrapped handler if it was let through.
AuthorizedRequest(ep, authHdr) ==
    /\ Running
    /\ listening
    /\ LET r == authorizeMethod(EndpointMap(ep), authHdr)
       IN  resp' = [endpoint |-> ep, header |-> authHdr,
                    status |-> IF r.err THEN r.status ELSE 200,
                    body |-> r.body, invoked |-> ~r.err, ctx |-> r.ctx,
                    environments |-> NoEntries, overall |-> "none"]
    /\ UNCHANGED <<streamVars, authorizedBefore, req, goalsFresh, ExitOnError,
                   IgnoreConnectionErrors, SendEvents, clients,
                   mobileClients, clientSideClients, handlers, eventHandlers,
                   pc, err, initialized, listening, alive>>

\* clientsHandler.getStatus: one entry per key of the clients map.
getStatusEntry(v) ==
    IF v = Nil THEN "disconnected"
    ELSE IF initialized[v.env] THEN "connected" ELSE "disconnected"

getStatus ==
    LET envs == [k \in DOMAIN clients |-> getStatusEntry(clients[k])]
        healthy == \A k \in DOMAIN envs : envs[k] = "connected"
    IN  [endpoint |-> "/status", header |-> NoString, status |-> 200,
         body |-> "", invoked |-> FALSE, ctx |-> Nil,
         environments |-> envs,
         overall |-> IF healthy THEN "healthy" ELSE "degraded"]

StatusRequest ==
    /\ Running
    /\ listening
    /\ resp' = getStatus
    /\ UNCHANGED <<streamVars, authorizedBefore, req, goalsFresh, ExitOnError,
                   IgnoreConnectionErrors, SendEvents, clients,
                   mobileClients, clientSideClients, handlers, eventHandlers,
                   pc, err, initialized, listening, alive>>

\* The handler returns and the answer is on the wire.
HandlerReturns ==
    /\ resp # NoResp
    /\ resp' = NoResp
    /\ req' = NoReq
    /\ UNCHANGED <<streamVars, authorizedBefore, goalsFresh, ExitOnError,
                   IgnoreConnectionErrors, SendEvents, clients,
                   mobileClients, clientSideClients, handlers, eventHandlers,
                   pc, err, initialized, listening, alive>>

\* What identifies the request being answered among those let through: its
\* route with the environment id of its path on a browser route, its route
\* with its Authorization header on the others.
Presenting ==
    IF req.envId # NoString
    THEN <<resp.endpoint, req.envId>>
    ELSE <<resp.endpoint, resp.header>>

\* The handler returns, and the request is remembered if it was let through.
HandlerReturnsRecorded ==
    /\ resp # NoResp
    /\ resp' = NoResp
    /\ req' = NoReq
    /\ authorizedBefore' = IF resp.invoked
                           THEN authorizedBefore \cup {Presenting}
                           ELSE authorizedBefore
    /\ UNCHANGED <<streamVars, goalsFresh, ExitOnError,
                   IgnoreConnectionErrors, SendEvents, clients,
                   mobileClients, clientSideClients, handlers, eventHandlers,
                   pc, err, initialized, listening, alive>>

\* The registry maps are plain Go maps and nothing orders the goroutines'
\* assignments with each other or with the handlers' reads.
ConcurrentWrites ==
    \E e1, e2 \in Envs :
        e1 # e2 /\ WritingTo(e1) # "none" /\ WritingTo(e1) = WritingTo(e2)

WriteWhileServing == listening /\ \E e \in Envs : WritingTo(e) # "none"

\* The Go runtime may detect a concurrent map access and end the process
\* ("fatal error: concurrent map writes" / "concurrent map read and map
\* write"); otherwise the accesses take effect in some order.
ConcurrentMapFatal ==
    /\ Running
    /\ ConcurrentWrites \/ WriteWhileServing
    /\ alive' = FALSE
    /\ UNCHANGED <<streamVars, authorizedBefore, req, goalsFresh, ExitOnError,
                   IgnoreConnectionErrors, SendEvents, clients,
                   mobileClients, clientSideClients, handlers, eventHandlers,
                   pc, err, initialized, listening, resp>>

\* ------------------------------------------------------------------------
\* Evaluation requests (evaluateAllFeatureFlags, UserV2FromBase64)
\* ------------------------------------------------------------------------

\* The JSON documents that requests carry as the user, written without the
\* quotes: a user with a key, a user without a key, a user whose key is
\* null, the document null, and a document cut short.
Documents == {"{key:u1}", "{name:n}", "{key:null}", "null", "{"}

\* How the user in the path is encoded: base64url with padding, without
\* padding, or not base64url at all.
Encodings == {"padded", "raw", "bad"}

\* base64.URLEncoding.DecodeString: takes the padded encoding only.
URLEncodingDecode(encoding, doc) ==
    IF encoding = "padded" THEN [bytes |-> doc, err |-> FALSE]
    ELSE [bytes |-> "", err |-> TRUE]

\* base64.RawURLEncoding.DecodeString: takes the unpadded encoding only.
RawURLEncodingDecode(encoding, doc) ==
    IF encoding = "raw" THEN [bytes |-> doc, err |-> FALSE]
    ELSE [bytes |-> "", err |-> TRUE]

\* base64urlDecode: padded first, then unpadded.
base64urlDecode(encoding, doc) ==
    LET padded == URLEncodingDecode(encoding, doc)
        raw == RawURLEncodingDecode(encoding, doc)
    IN  IF ~padded.err THEN padded
        ELSE IF ~raw.err THEN raw
        ELSE [bytes |-> "", err |-> TRUE]

\* The zero ld.User: its Key is nil.
ZeroUser == [isNil |-> FALSE, Key |-> "nil"]

\* json.Unmarshal(bytes, &user) for user of type ld.User: a document that
\* is not JSON is an error; null leaves the user as it was; an object sets
\* the fields it has, and a null key leaves Key nil.
UnmarshalUser(bytes) ==
    CASE bytes = "{key:u1}"   -> [user |-> [isNil |-> FALSE, Key |-> "u1"],
                                  err |-> FALSE]
      [] bytes = "{name:n}"   -> [user |-> ZeroUser, err |-> FALSE]
      [] bytes = "{key:null}" -> [user |-> ZeroUser, err |-> FALSE]
      [] bytes = "null"       -> [user |-> ZeroUser, err |-> FALSE]
      [] OTHER                -> [user |-> ZeroUser, err |-> TRUE]

\* json.Unmarshal(body, &user) for user of type *ld.User, nil before: null
\* leaves the pointer nil; an object allocates a user and fills it.
UnmarshalUserPointer(bytes) ==
    IF bytes = "null"
    THEN [user |-> [isNil |-> TRUE, Key |-> "nil"], err |-> FALSE]
    ELSE UnmarshalUser(bytes)

\* UserV2FromBase64(base64User): the user, or the error it returns.
UserV2FromBase64(encoding, doc) ==
    LET idStr == base64urlDecode(encoding, doc)
        parsed == UnmarshalUser(idStr.bytes)
    IN  IF idStr.err
        THEN [user |-> ZeroUser, err |-> TRUE,
              msg |-> "User part of url path did not decode as valid base64"]
        ELSE IF parsed.err
        THEN [user |-> ZeroUser, err |-> TRUE,
              msg |-> "User part of url path did not decode to valid user as json"]
        ELSE IF parsed.user.Key = "nil"
        THEN [user |-> ZeroUser, err |-> TRUE,
              msg |-> "User must have a 'key' attribute"]
        ELSE [user |-> parsed.user, err |-> FALSE, msg |-> ""]

\* Faulty variant: a Content-Type that begins with application/json is
\* taken as well.
ContentTypeAcceptedWithParameters(contentType) ==
    contentType \in {"application/json", "application/json; charset=utf-8"}

\* req.Header.Get("Content-Type") != "application/json", negated.
ContentTypeAccepted(contentType) == contentType = "application/json"

\* What evaluateAllFeatureFlags writes and does for a request that its
\* wrapper let through: the status (0 when the handler panics and the
\* server closes the connection without an answer), the body and its type,
\* whether the user was decoded, and whether client.AllFlags was called and
\* with which user key.
evaluateAllFeatureFlags(method, contentType, encoding, doc) ==
    LET unsupported == method = "REPORT" /\ ~ContentTypeAccepted(contentType)
        decoded == IF method = "REPORT"
                   THEN LET u == UnmarshalUserPointer(doc)
                        IN  [user |-> u.user, err |-> u.err,
                             msg |-> "unexpected end of JSON input"]
                   ELSE UserV2FromBase64(encoding, doc)
    IN  IF unsupported
        THEN [status |-> 415, body |-> "Content-Type must be application/json.",
              bodyType |-> "text", decoded |-> FALSE, evaluated |-> FALSE,
              evalKey |-> "none", panicked |-> FALSE]
        ELSE IF decoded.err
        THEN [status |-> 400, body |-> decoded.msg, bodyType |-> "json message",
              decoded |-> TRUE, evaluated |-> FALSE, evalKey |-> "none",
              panicked |-> FALSE]
        ELSE IF decoded.user.isNil
        THEN [status |-> 0, body |-> "", bodyType |-> "none",
              decoded |-> TRUE, evaluated |-> FALSE, evalKey |-> "none",
              panicked |-> TRUE]
        ELSE [status |-> 200, body |-> "", bodyType |-> "json flags",
              decoded |-> TRUE, evaluated |-> TRUE,
              evalKey |-> decoded.user.Key, panicked |-> FALSE]

\* The request as the handlers see it.
Request(method, contentType, encoding, doc, envId) ==
    [NoReq EXCEPT !.method = method, !.contentType = contentType,
                  !.encoding = encoding, !.user = doc, !.envId = envId]

\* The request and what the evaluation handler did with it.
Evaluated(r, a) ==
    [r EXCEPT !.decoded = a.decoded, !.evaluated = a.evaluated,
              !.evalKey = a.evalKey, !.panicked = a.panicked,
              !.bodyType = a.bodyType]

\* The routes under /sdk/eval and /msdk/eval that take the key from the
\* Authorization header.
EvalEndpoints == {"/sdk/eval", "/msdk/eval"}

\* GET .../users/{user} and REPORT .../user on a header-authorized route:
\* clientMuxHandler.authorizeMethod(evaluateAllFeatureFlags).
EvalRequest(ep, authHdr, method, contentType, encoding, doc) ==
    /\ Running
    /\ listening
    /\ LET r == authorizeMethod(EndpointMap(ep), authHdr)
           a == evaluateAllFeatureFlags(method, contentType, encoding, doc)
           q == Request(method, contentType, encoding, doc, NoString)
       IN  IF r.err
           THEN /\ resp' = [endpoint |-> ep, header |-> authHdr,
                            status |-> r.status, body |-> r.body,
                            invoked |-> FALSE, ctx |-> Nil,
                            environments |-> NoEntries, overall |-> "none"]
                /\ req' = [q EXCEPT !.bodyType =
                                       IF r.body = "" THEN "none" ELSE "text"]
           ELSE /\ resp' = [endpoint |-> ep, header |-> authHdr,
                            status |-> a.status, body |-> a.body,
                            invoked |-> TRUE, ctx |-> r.ctx,
                            environments |-> NoEntries, overall |-> "none"]
                /\ req' = Evaluated(q, a)
    /\ UNCHANGED <<streamVars, authorizedBefore, goalsFresh, ExitOnError,
                   IgnoreConnectionErrors, SendEvents, clients,
                   mobileClients, clientSideClients, handlers, eventHandlers,
                   pc, err, initialized, listening, alive>>

\* What findEnvironment answers and hands on for an environment id in the
\* path.
findEnvironment(clientMap, envId) ==
    LET client == MapGet(clientMap, envId)
    IN  IF client = Nil
        THEN [status |-> 404,
              body |-> "ld-relay is not configured for environment id",
              ctx |-> Nil, found |-> FALSE]
        ELSE [status |-> 0, body |-> "", ctx |-> client, found |-> TRUE]

\* GET /sdk/eval/{envId}/users/{user} and REPORT /sdk/eval/{envId}/user:
\* clientSideClientsHandler.findEnvironment(evaluateAllFeatureFlags).
BrowserEvalRequest(envId, authHdr, method, contentType, encoding, doc) ==
    /\ Running
    /\ listening
    /\ LET f == findEnvironment(clientSideClients, envId)
           a == evaluateAllFeatureFlags(method, contentType, encoding, doc)
           q == Request(method, contentType, encoding, doc, envId)
       IN  IF ~f.found
           THEN /\ resp' = [endpoint |-> "/sdk/eval/{envId}",
                            header |-> authHdr, status |-> f.status,
                            body |-> f.body, invoked |-> FALSE, ctx |-> Nil,
                            environments |-> NoEntries, overall |-> "none"]
                /\ req' = [q EXCEPT !.bodyType = "text"]
           ELSE /\ resp' = [endpoint |-> "/sdk/eval/{envId}",
                            header |-> authHdr, status |-> a.status,
                            body |-> a.body, invoked |-> TRUE, ctx |-> f.ctx,
                            environments |-> NoEntries, overall |-> "none"]
                /\ req' = Evaluated(q, a)
    /\ UNCHANGED <<streamVars, authorizedBefore, goalsFresh, ExitOnError,
                   IgnoreConnectionErrors, SendEvents, clients,
                   mobileClients, clientSideClients, handlers, eventHandlers,
                   pc, err, initialized, listening, alive>>

\* ------------------------------------------------------------------------
\* The goals passthrough (getGoals)
\* ------------------------------------------------------------------------

\* httpcache.NewMemoryCacheTransport(): a transport over a cache that holds
\* no response yet.  The cache is the set of URLs it holds a fresh response
\* for.
NewMemoryCacheTransport == {}

\* How upstream answers a goals request: not at all, with a response that
\* may be cached and is still fresh, or with one that may not be cached.
UpstreamAnswers == {"error", "cacheable", "no-store"}

\* What getGoals answers for an environment id: the transport is made for
\* this request, so the response is looked up in the cache it starts with,
\* and upstream is contacted on a miss.
getGoals(envId, answer) ==
    LET cachingTransport == NewMemoryCacheTransport
        hit == envId \in cachingTransport
    IN  IF hit
        THEN [status |-> 200, upstream |-> FALSE, bodyType |-> "json goals"]
        ELSE IF answer = "error"
        THEN [status |-> 500, upstream |-> TRUE, bodyType |-> "none"]
        ELSE [status |-> 200, upstream |-> TRUE, bodyType |-> "json goals"]

\* GET /sdk/goals/{envId}: clientSideClientsHandler.findEnvironment(getGoals).
GoalsRequest(envId, authHdr, answer) ==
    /\ Running
    /\ listening
    /\ LET f == findEnvironment(clientSideClients, envId)
           g == getGoals(envId, answer)
           q == Request("GET", "", "none", "none", envId)
       IN  IF ~f.found
           THEN /\ resp' = [endpoint |-> "/sdk/goals/{envId}",
                            header |-> authHdr, status |-> f.status,
                            body |-> f.body, invoked |-> FALSE, ctx |-> Nil,
                            environments |-> NoEntries, overall |-> "none"]
                /\ req' = [q EXCEPT !.bodyType = "text"]
                /\ UNCHANGED goalsFresh
           ELSE /\ resp' = [endpoint |-> "/sdk/goals/{envId}",
                            header |-> authHdr, status |-> g.status,
                            body |-> "", invoked |-> TRUE, ctx |-> f.ctx,
                            environments |-> NoEntries, overall |-> "none"]
                /\ req' = [q EXCEPT !.upstream = g.upstream,
                                    !.bodyType = g.bodyType]
                /\ goalsFresh' = IF g.upstream /\ answer = "cacheable"
                                 THEN goalsFresh \cup {envId}
                                 ELSE goalsFresh
    /\ UNCHANGED <<streamVars, authorizedBefore, ExitOnError,
                   IgnoreConnectionErrors, SendEvents, clients,
                   mobileClients, clientSideClients, handlers, eventHandlers,
                   pc, err, initialized, listening, alive>>

\* ------------------------------------------------------------------------
\* The feature store of an environment (ld.FeatureStore)
\* ------------------------------------------------------------------------

MaxVersion == 2

MaxEvents == 2

Keys == {"x", "y"}

Payloads == {"p", "q"}

Versions == 1..MaxVersion

EmptyStore == [k \in {} |-> [version |-> 0, deleted |-> FALSE, data |-> ""]]

NoFlags == [k \in {} |-> [version |-> 0, data |-> ""]]

\* The snapshots an upstream put may carry.
Snapshots ==
    {[k \in S |-> [version |-> v, data |-> "p"]] :
        S \in SUBSET Keys, v \in Versions}

\* init(snapshot): replaces all items.
StoreInit(st, snap) ==
    [k \in DOMAIN snap |->
        [version |-> snap[k].version, deleted |-> FALSE, data |-> snap[k].data]]

\* all(): the live set, tombstones filtered out.
StoreAll(st) ==
    [k \in {x \in DOMAIN st : ~st[x].deleted} |->
        [version |-> st[k].version, data |-> st[k].data]]

\* Faulty variant: every write is taken, the last one wins.
StoreAcceptsAnything(st, k, v) == TRUE

\* Faulty variant: a write of the stored version is taken too.
StoreAcceptsNotOlder(st, k, v) == k \notin DOMAIN st \/ v >= st[k].version

\* Whether a write of key k at version v is accepted: the key is not stored,
\* as an item or as a tombstone, or v is newer than the stored version.
StoreAccepts(st, k, v) == k \notin DOMAIN st \/ v > st[k].version

StorePut(st, k, item) ==
    [x \in (DOMAIN st) \cup {k} |-> IF x = k THEN item ELSE st[x]]

\* upsert(kind, key, entity): a no-op unless accepted.
StoreUpsert(st, k, v, d) ==
    IF StoreAccepts(st, k, v)
    THEN StorePut(st, k, [version |-> v, deleted |-> FALSE, data |-> d])
    ELSE st

\* delete(kind, key, version): records a tombstone at version if accepted.
StoreDelete(st, k, v) ==
    IF StoreAccepts(st, k, v)
    THEN StorePut(st, k, [version |-> v, deleted |-> TRUE, data |-> ""])
    ELSE st

\* ------------------------------------------------------------------------
\* Events, the store adapter and the publisher
\* ------------------------------------------------------------------------

NoEvent == [type |-> "none", key |-> "", version |-> 0, data |-> "",
            flags |-> NoFlags, id |-> 0, replay |-> FALSE]

PutEvent(snap, id, replay) ==
    [type |-> "put", key |-> "", version |-> 0, data |-> "",
     flags |-> snap, id |-> id, replay |-> replay]

PatchEvent(k, v, d, id) ==
    [type |-> "patch", key |-> k, version |-> v, data |-> d,
     flags |-> NoFlags, id |-> id, replay |-> FALSE]

DeleteEvent(k, v, id) ==
    [type |-> "delete", key |-> k, version |-> v, data |-> "",
     flags |-> NoFlags, id |-> id, replay |-> FALSE]

\* Faulty variant: the client is given the base store, not the adapter.
ClientFeatureStoreIsBase == "base"

\* clientConfig.FeatureStore = NewSSERelayFeatureStore(envConfig.ApiKey,
\* publisher, baseFeatureStore, ...): the upstream client writes to the
\* adapter, which wraps the base store.
ClientFeatureStore == "relay"

\* Faulty variant: publisher.ReplayAll is left false.
ReplayAllOff == FALSE

\* publisher.ReplayAll = true
ReplayAll == TRUE

\* The clients that may subscribe.
Subs == {"s1", "s2"}

\* The environments whose upstream stream is followed.
StreamEnvs == {"A"}

InitStream ==
    /\ store = [e \in Envs |-> EmptyStore]
    /\ inited = [e \in Envs |-> FALSE]
    /\ upLog = [e \in Envs |-> <<>>]
    /\ pending = [e \in Envs |-> NoEvent]
    /\ pubLog = [e \in Envs |-> <<>>]
    /\ subChannel = [s \in Subs |-> "none"]
    /\ joined = [s \in Subs |-> 0]
    /\ recv = [s \in Subs |-> <<>>]
    /\ subKey = [s \in Subs |-> NoString]
    /\ backlog = [s \in Subs |-> 0]

Init == InitRegistry /\ InitStream

\* The upstream reader of e hands the adapter one event at a time.
CanReceive(e) == pending[e] = NoEvent /\ Len(upLog[e]) < MaxEvents

\* What the adapter will publish for an event the store took.
ToPublish(ev) == IF ClientFeatureStore = "relay" THEN ev ELSE NoEvent

\* Upstream put: adapter.init(snapshot) delegates to the store.
UpstreamPut(e, snap) ==
    /\ CanReceive(e)
    /\ LET id == Len(upLog[e]) + 1
       IN  /\ upLog' = [upLog EXCEPT ![e] = Append(@, PutEvent(snap, id, FALSE))]
           /\ pending' = [pending EXCEPT
                             ![e] = ToPublish(PutEvent(snap, id, FALSE))]
    /\ store' = [store EXCEPT ![e] = StoreInit(@, snap)]
    /\ inited' = [inited EXCEPT ![e] = TRUE]
    /\ UNCHANGED <<regVars, pubLog, subChannel, joined, recv, subKey,
                   backlog>>

\* Upstream patch: adapter.upsert(kind, key, entity) delegates to the store
\* and has an event to publish if and only if the store accepted the write.
UpstreamPatch(e, k, v, d) ==
    /\ CanReceive(e)
    /\ LET id == Len(upLog[e]) + 1
       IN  /\ upLog' = [upLog EXCEPT ![e] = Append(@, PatchEvent(k, v, d, id))]
           /\ pending' = [pending EXCEPT
                             ![e] = IF StoreAccepts(store[e], k, v)
                                    THEN ToPublish(PatchEvent(k, v, d, id))
                                    ELSE NoEvent]
    /\ store' = [store EXCEPT ![e] = StoreUpsert(@, k, v, d)]
    /\ UNCHANGED <<regVars, inited, pubLog, subChannel, joined, recv, subKey,
                   backlog>>

\* Upstream delete: adapter.delete(kind, key, version), likewise.
UpstreamDelete(e, k, v) ==
    /\ CanReceive(e)
    /\ LET id == Len(upLog[e]) + 1
       IN  /\ upLog' = [upLog EXCEPT ![e] = Append(@, DeleteEvent(k, v, id))]
           /\ pending' = [pending EXCEPT
                             ![e] = IF StoreAccepts(store[e], k, v)
                                    THEN ToPublish(DeleteEvent(k, v, id))
                                    ELSE NoEvent]
    /\ store' = [store EXCEPT ![e] = StoreDelete(@, k, v)]
    /\ UNCHANGED <<regVars, inited, pubLog, subChannel, joined, recv, subKey,
                   backlog>>

\* The number of events a subscriber's outbound buffer holds.
MaxBuffer == 1

\* Faulty variant: a publish waits for room in every subscriber's buffer.
OnFullBufferBlock == "block"

\* What the publisher does with a subscriber whose outbound buffer is full
\* when an event is published: it disconnects it.
OnFullBuffer == "drop"

\* s's outbound buffer has no room for one more event.
Full(s) == backlog[s] >= MaxBuffer

\* The adapter publishes on e's channel: every subscriber of the channel
\* whose buffer has room is sent the event, after the events it was sent
\* before, and the others are disconnected.  The connections of the
\* subscribers in fast write the event out at once; the event stays in the
\* buffer of the others.
Deliver(e, fast) ==
    /\ pending[e] # NoEvent
    /\ OnFullBuffer = "block" =>
           \A s \in Subs : subChannel[s] = e => ~Full(s)
    /\ pubLog' = [pubLog EXCEPT ![e] = Append(@, pending[e])]
    /\ recv' = [s \in Subs |->
                   IF subChannel[s] = e /\ ~Full(s)
                   THEN Append(recv[s], pending[e])
                   ELSE recv[s]]
    /\ subChannel' = [s \in Subs |->
                         IF subChannel[s] = e /\ Full(s) THEN "none"
                         ELSE subChannel[s]]
    /\ backlog' = [s \in Subs |->
                      IF subChannel[s] # e THEN backlog[s]
                      ELSE IF Full(s) THEN 0
                      ELSE IF s \in fast THEN backlog[s]
                      ELSE backlog[s] + 1]
    /\ pending' = [pending EXCEPT ![e] = NoEvent]
    /\ UNCHANGED <<regVars, store, inited, upLog, joined, subKey>>

\* A publish to subscribers that all keep up.
Publish(e) == Deliver(e, Subs)

\* A publish to subscribers of which only those in fast keep up.
PublishSlow(e, fast) == Deliver(e, fast)

\* A subscriber's connection writes out the oldest event of its buffer.
Write(s) ==
    /\ subChannel[s] # "none"
    /\ backlog[s] > 0
    /\ backlog' = [backlog EXCEPT ![s] = @ - 1]
    /\ UNCHANGED <<regVars, store, inited, upLog, pending, pubLog, subChannel,
                   joined, recv, subKey>>

\* What a new subscriber of e's channel is sent first: with ReplayAll, the
\* put event of the current snapshot.
Replay(e) ==
    IF ReplayAll THEN <<PutEvent(StoreAll(store[e]), 0, TRUE)>> ELSE <<>>

\* A client that presented authHdr is connected to e's channel; the replay
\* goes through its outbound buffer, and is written out at once if fast.
Connect(s, e, authHdr, fast) ==
    /\ subChannel[s] = "none"
    /\ subChannel' = [subChannel EXCEPT ![s] = e]
    /\ joined' = [joined EXCEPT ![s] = Len(pubLog[e])]
    /\ recv' = [recv EXCEPT ![s] = Replay(e)]
    /\ subKey' = [subKey EXCEPT ![s] = authHdr]
    /\ backlog' = [backlog EXCEPT ![s] = IF fast THEN 0 ELSE Len(Replay(e))]
    /\ UNCHANGED <<regVars, store, inited, upLog, pending, pubLog>>

\* A client subscribes to e's channel (GET /flags served by the channel's
\* handler) and keeps up.
Subscribe(s, e) == Connect(s, e, Environment[e].ApiKey, TRUE)

\* A client subscribes to e's channel and may not keep up.
SubscribeSlow(s, e, fast) == Connect(s, e, Environment[e].ApiKey, fast)

\* GET /flags: streamMuxHandler.authorizeMethod(serveHandler) looks the
\* header up in handlers, and the handler it finds serves the channel it
\* was made for.
SubscribeRequest(s, authHdr) ==
    /\ Running
    /\ listening
    /\ LET r == authorizeMethod(handlers, authHdr)
       IN  /\ ~r.err
           /\ Connect(s, r.ctx.env, authHdr, TRUE)

Next ==
    \/ \E e \in Envs : ClientInitialized(e)
    \/ \E e \in Envs : MakeCustomClient(e)
    \/ \E e \in Envs : RegisterClient(e)
    \/ \E e \in Envs : RegisterMobileClient(e)
    \/ \E e \in Envs : RegisterClientSideClient(e)
    \/ \E e \in Envs : CheckError(e)
    \/ \E e \in Envs : RegisterHandler(e)
    \/ \E e \in Envs : RegisterEventHandler(e)
    \/ ListenAndServe
    \/ ConcurrentMapFatal
    \/ \E ep \in AuthEndpoints, h \in Headers : AuthorizedRequest(ep, h)
    \/ StatusRequest
    \/ HandlerReturns

Spec == Init /\ [][Next]_vars

NextStream ==
    \/ \E e \in StreamEnvs, snap \in Snapshots : UpstreamPut(e, snap)
    \/ \E e \in StreamEnvs, k \in Keys, v \in Versions, d \in Payloads :
           UpstreamPatch(e, k, v, d)
    \/ \E e \in StreamEnvs, k \in Keys, v \in Versions : UpstreamDelete(e, k, v)
    \/ \E e \in StreamEnvs : Publish(e)
    \/ \E s \in Subs, e \in StreamEnvs : Subscribe(s, e)

\* The flags of [main] and [events] play no part in a channel.
InitChannel ==
    Init /\ ~ExitOnError /\ ~IgnoreConnectionErrors /\ ~SendEvents

SpecStream == InitChannel /\ [][NextStream]_vars

\* ------------------------------------------------------------------------
\* The registry and the evaluation and goals requests
\* ------------------------------------------------------------------------

\* The Authorization headers of the evaluation requests.
EvalHeaders == {NoString, Environment.A.ApiKey, Environment.A.MobileKey,
                ApiKeyPrefix \o Environment.A.ApiKey}

\* The environment ids in the paths of the browser requests: A's, one that
\* no environment has, and A's server key.
EnvIds == {Environment.A.EnvId, Rep("6", 24), Environment.A.ApiKey}

\* The Authorization headers of the browser requests.
BrowserHeaders == {NoString, Environment.A.ApiKey}

\* The methods, Content-Types and users of the evaluation requests: a GET
\* has no Content-Type and its user is encoded in the path, a REPORT has
\* its user as the body.
ContentTypes == {"application/json", "application/json; charset=utf-8", ""}

EvalInputs ==
    {[method |-> "GET", contentType |-> "", encoding |-> e, doc |-> d] :
        e \in {"padded"}, d \in Documents}
    \cup {[method |-> "GET", contentType |-> "", encoding |-> e,
           doc |-> "{key:u1}"] : e \in Encodings}
    \cup {[method |-> "REPORT", contentType |-> c, encoding |-> "none",
           doc |-> d] : c \in ContentTypes, d \in Documents}

NextEval ==
    \/ \E e \in Envs : MakeCustomClient(e)
    \/ \E e \in Envs : RegisterClient(e)
    \/ \E e \in Envs : RegisterMobileClient(e)
    \/ \E e \in Envs : RegisterClientSideClient(e)
    \/ \E e \in Envs : CheckError(e)
    \/ \E e \in Envs : RegisterHandler(e)
    \/ \E e \in Envs : RegisterEventHandler(e)
    \/ ListenAndServe
    \/ \E ep \in EvalEndpoints, h \in EvalHeaders, i \in EvalInputs :
           EvalRequest(ep, h, i.method, i.contentType, i.encoding, i.doc)
    \/ \E id \in EnvIds, h \in BrowserHeaders, i \in EvalInputs :
           BrowserEvalRequest(id, h, i.method, i.contentType, i.encoding,
                              i.doc)
    \/ \E id \in EnvIds, h \in BrowserHeaders, a \in UpstreamAnswers :
           GoalsRequest(id, h, a)
    \/ HandlerReturns

\* The flags of [main] and [events] play no part in these handlers.
InitEval == Init /\ ~ExitOnError /\ IgnoreConnectionErrors /\ ~SendEvents

SpecEval == InitEval /\ [][NextEval]_vars

\* ------------------------------------------------------------------------
\* The registry under requests that are remembered once let through
\* ------------------------------------------------------------------------

\* The headers the remembered requests present: the server keys of A and B,
\* A's mobile key and a key that no environment has.
RecordedHeaders == {Environment.A.ApiKey, Environment.B.ApiKey,
                    Environment.A.MobileKey, Uuid("f")}

\* The environment ids the remembered requests name: A's and an unknown one.
RecordedEnvIds == {Environment.A.EnvId, Rep("6", 24)}

NextRecorded ==
    \/ \E e \in Envs : ClientInitialized(e)
    \/ \E e \in Envs : MakeCustomClient(e)
    \/ \E e \in Envs : RegisterClient(e)
    \/ \E e \in Envs : RegisterMobileClient(e)
    \/ \E e \in Envs : RegisterClientSideClient(e)
    \/ \E e \in Envs : CheckError(e)
    \/ \E e \in Envs : RegisterHandler(e)
    \/ \E e \in Envs : RegisterEventHandler(e)
    \/ ListenAndServe
    \/ ConcurrentMapFatal
    \/ \E ep \in AuthEndpoints, h \in RecordedHeaders :
           AuthorizedRequest(ep, h)
    \/ \E id \in RecordedEnvIds : GoalsRequest(id, NoString, "no-store")
    \/ HandlerReturnsRecorded

\* Events are forwarded, so that every registry map is assigned to.
InitRecorded == Init /\ SendEvents

SpecRecorded == InitRecorded /\ [][NextRecorded]_vars

\* ------------------------------------------------------------------------
\* Patches on a store that already holds items
\* ------------------------------------------------------------------------

\* What a store may hold for a key: an item at some version, or a tombstone.
StoredItems ==
    {[version |-> v, deleted |-> FALSE, data |-> d] :
        v \in Versions, d \in Payloads}
    \cup {[version |-> v, deleted |-> TRUE, data |-> ""] : v \in Versions}

\* The stores that earlier puts, patches and deletes may have left.
StartingStores == UNION {[S -> StoredItems] : S \in SUBSET Keys}

InitPatches ==
    /\ InitRegistry
    /\ ~ExitOnError /\ ~IgnoreConnectionErrors /\ ~SendEvents
    /\ store \in [Envs -> StartingStores]
    /\ \A e \in Envs \ StreamEnvs : store[e] = EmptyStore
    /\ inited = [e \in Envs |-> store[e] # EmptyStore]
    /\ upLog = [e \in Envs |-> <<>>]
    /\ pending = [e \in Envs |-> NoEvent]
    /\ pubLog = [e \in Envs |-> <<>>]
    /\ subChannel = [s \in Subs |-> "none"]
    /\ joined = [s \in Subs |-> 0]
    /\ recv = [s \in Subs |-> <<>>]
    /\ subKey = [s \in Subs |-> NoString]
    /\ backlog = [s \in Subs |-> 0]

NextPatches ==
    \/ \E e \in StreamEnvs, k \in Keys, v \in Versions, d \in Payloads :
           UpstreamPatch(e, k, v, d)
    \/ \E e \in StreamEnvs : Publish(e)

SpecPatches == InitPatches /\ [][NextPatches]_vars

\* ------------------------------------------------------------------------
\* Two environments, each with its upstream stream, and the subscribers
\* that GET /flags lets in
\* ------------------------------------------------------------------------

\* The events all upstream clients have received so far.
TotalEvents == Len(upLog["A"]) + Len(upLog["B"])

\* Upstream numbers its updates: the version the next event of e carries.
NextVersion(e) == Len(upLog[e]) + 1

\* The key of the numbered events.
NumberedKey == "x"

\* A put of the one key at the next version.
NumberedPut(e) ==
    /\ TotalEvents < MaxEvents
    /\ UpstreamPut(e, [k \in {NumberedKey} |->
                          [version |-> NextVersion(e), data |-> "p"]])

NumberedPatch(e) ==
    /\ TotalEvents < MaxEvents
    /\ UpstreamPatch(e, NumberedKey, NextVersion(e), "q")

NumberedDelete(e) ==
    /\ TotalEvents < MaxEvents
    /\ UpstreamDelete(e, NumberedKey, NextVersion(e))

\* The Authorization headers of the clients that subscribe.
SubscribeHeaders ==
    {Environment.A.ApiKey, ApiKeyPrefix \o Environment.A.ApiKey,
     Environment.B.ApiKey, Environment.A.MobileKey}

\* The subscriber of this specification.
IsolationSubs == {"s1"}

NextIsolation ==
    \/ \E e \in Envs : MakeCustomClient(e)
    \/ \E e \in Envs : RegisterClient(e)
    \/ \E e \in Envs : RegisterMobileClient(e)
    \/ \E e \in Envs : RegisterClientSideClient(e)
    \/ \E e \in Envs : CheckError(e)
    \/ \E e \in Envs : RegisterHandler(e)
    \/ \E e \in Envs : RegisterEventHandler(e)
    \/ ListenAndServe
    \/ \E e \in Envs : NumberedPut(e)
    \/ \E e \in Envs : NumberedPatch(e)
    \/ \E e \in Envs : NumberedDelete(e)
    \/ \E e \in Envs : Publish(e)
    \/ \E s \in IsolationSubs, h \in SubscribeHeaders : SubscribeRequest(s, h)

\* Both environments are registered though their clients were not
\* initialised within the wait: connection errors are ignored.
InitIsolation ==
    Init /\ ~ExitOnError /\ IgnoreConnectionErrors /\ ~SendEvents

SpecIsolation == InitIsolation /\ [][NextIsolation]_vars

\* ------------------------------------------------------------------------
\* A channel whose subscribers may not keep up
\* ------------------------------------------------------------------------

NextSlow ==
    \/ \E e \in StreamEnvs : NumberedPut(e)
    \/ \E e \in StreamEnvs : NumberedPatch(e)
    \/ \E e \in StreamEnvs : NumberedDelete(e)
    \/ \E e \in StreamEnvs, fast \in SUBSET Subs : PublishSlow(e, fast)
    \/ \E s \in Subs, e \in StreamEnvs, fast \in BOOLEAN :
           SubscribeSlow(s, e, fast)
    \/ \E s \in Subs : Write(s)

SpecSlow == InitChannel /\ [][NextSlow]_vars

\* ------------------------------------------------------------------------
\* Properties of the registry and of the authorization
\* ------------------------------------------------------------------------

ApiKey(e) == Environment[e].ApiKey

\* The header with the optional "api_key " taken off.
Presented(authHdr) ==
    IF HasPrefix(authHdr, ApiKeyPrefix)
    THEN SubSeq(authHdr, Len(ApiKeyPrefix) + 1, Len(authHdr))
    ELSE authHdr

\* The keys that hold a non-nil entry in map m.
Held(m) == {k \in DOMAIN m : m[k] # Nil}

\* C3: on a header-authorized endpoint the wrapped handler is invoked only
\* when the header is a key that holds a non-nil entry in the endpoint's own
\* map, alone or after "api_key "; every other header (no token, a token the
\* map does not hold, a key registered under another kind only) is answered
\* 401 and the wrapped handler is not invoked.
C3_HandlerOnlyForHeldKey ==
    resp.endpoint \in AuthEndpoints =>
        LET m == EndpointMap(resp.endpoint)
        IN  /\ IF Presented(resp.header) \in Held(m)
               THEN resp.invoked => resp.ctx = m[Presented(resp.header)]
               ELSE resp.status = 401 /\ ~resp.invoked
            /\ ~TokenShape(Presented(resp.header)) =>
                   resp.status = 401 /\ ~resp.invoked

\* A mobile key that is registered, presented on a server-kind endpoint, is
\* answered 401.
C3_Witness ==
    /\ resp.endpoint = "/sdk/eval"
    /\ resp.header = Environment.A.MobileKey
    /\ Environment.A.MobileKey \in Held(mobileClients)
    /\ resp.status = 401
    /\ ~resp.invoked

\* e's client failed to initialise within the wait, errors are not ignored,
\* and e's goroutine is past the test of err.
Failed(e) ==
    /\ err[e]
    /\ ~IgnoreConnectionErrors
    /\ pc[e] \in {"exit", "done"}

NoHandlerFor(e) ==
    /\ MapGet(handlers, ApiKey(e)) = Nil
    /\ MapGet(eventHandlers, ApiKey(e)) = Nil

NoClientFor(e) ==
    /\ MapGet(clients, ApiKey(e)) = Nil
    /\ HasMobileKey(e) => MapGet(mobileClients, Environment[e].MobileKey) = Nil
    /\ HasEnvId(e) => MapGet(clientSideClients, Environment[e].EnvId) = Nil

ClientRegisteredFor(e) ==
    /\ MapGet(clients, ApiKey(e)) = Client(e)
    /\ HasMobileKey(e) =>
           MapGet(mobileClients, Environment[e].MobileKey) = Client(e)
    /\ HasEnvId(e) =>
           MapGet(clientSideClients, Environment[e].EnvId) = Client(e)

\* C4 as claimed: after a failed start without ignore-connection-errors the
\* process has exited when exit-on-error is set, and otherwise none of the
\* environment's credentials resolves to a handle and it has no stream or
\* event handler.
C4_FailedEnvUnregistered ==
    \A e \in Envs :
        Failed(e) =>
            IF ExitOnError THEN ~alive
            ELSE NoClientFor(e) /\ NoHandlerFor(e)

\* C4 amended: after a failed start without ignore-connection-errors the
\* process has exited when exit-on-error is set; otherwise the environment
\* has no stream handler and no event handler, so /flags and /bulk answer
\* 401 for its server key, but its client is registered under its server
\* key, and under its mobile key and environment id when it has them.
C4_FailedEnvHasClientButNoHandler ==
    \A e \in Envs :
        Failed(e) =>
            IF ExitOnError THEN ~alive /\ pc[e] = "exit"
            ELSE /\ pc[e] = "done"
                 /\ NoHandlerFor(e)
                 /\ ClientRegisteredFor(e)
                 /\ authorizeMethod(handlers, ApiKey(e)).status = 401
                 /\ authorizeMethod(eventHandlers, ApiKey(e)).status = 401

\* Environment A failed to start, the process goes on, and a request on
\* /sdk/eval with A's server key is handed A's client.
C4_Witness ==
    /\ Failed("A")
    /\ ~ExitOnError
    /\ resp.endpoint = "/sdk/eval"
    /\ resp.header = ApiKey("A")
    /\ resp.invoked
    /\ resp.ctx = Client("A")

\* C5: no two environment goroutines are at an assignment to the same
\* registry map at once, and none is at an assignment to a registry map
\* once the listener serves requests.
C5_RegistryNeverWrittenConcurrently ==
    ~ConcurrentWrites /\ ~WriteWhileServing

\* e's goroutine has done clients[envConfig.ApiKey] = client.
ClientStored(e) == pc[e] \notin {"make", "reg_clients"}

\* C6: every answer of GET /status lists every configured server key, lists
\* it as connected exactly when the environment's goroutine has stored its
\* client and that client is initialised, and is healthy exactly when all
\* are connected; an environment that is not initialised is listed as
\* disconnected and makes the answer degraded.
C6_StatusReflectsClients ==
    resp.endpoint = "/status" =>
        /\ \A e \in Envs : ApiKey(e) \in DOMAIN resp.environments
        /\ \A e \in Envs :
               resp.environments[ApiKey(e)] =
                   IF ClientStored(e) /\ initialized[e]
                   THEN "connected" ELSE "disconnected"
        /\ resp.overall =
               IF \A e \in Envs : ClientStored(e) /\ initialized[e]
               THEN "healthy" ELSE "degraded"
        /\ \A e \in Envs :
               ~initialized[e] =>
                   /\ resp.environments[ApiKey(e)] = "disconnected"
                   /\ resp.overall = "degraded"

\* GET /status before B's goroutine has stored its client, A being
\* connected: B is listed as disconnected and the answer is degraded.
C6_Witness ==
    /\ resp.endpoint = "/status"
    /\ pc["B"] = "make"
    /\ resp.environments[ApiKey("A")] = "connected"
    /\ resp.environments[ApiKey("B")] = "disconnected"
    /\ resp.overall = "degraded"

\* The endpoints of the server kind and of the mobile kind.
KindEndpoints == {"/flags", "/bulk", "/sdk/eval", "/msdk/eval"}

\* C7 as claimed: a request on a server-kind or mobile-kind endpoint whose
\* header carries, with or without "api_key ", a non-empty token equal to a
\* key registered in that kind's map is authorized, whatever the key's shape.
C7_AnyRegisteredKeyAuthorized ==
    (resp.endpoint \in KindEndpoints
       /\ Len(Presented(resp.header)) > 0
       /\ Presented(resp.header) \in Held(EndpointMap(resp.endpoint)))
    => resp.invoked /\ resp.status # 401

\* C7 amended: such a request is authorized exactly when the registered key
\* has the shape the header pattern takes (an optional three lower-case
\* letters and a dash, then a lower-case version-4 UUID); a registered key
\* of another shape, such as sdk-B, is answered 401.
C7_RegisteredKeyAuthorizedIffUuidShaped ==
    (resp.endpoint \in KindEndpoints
       /\ Len(Presented(resp.header)) > 0
       /\ Presented(resp.header) \in Held(EndpointMap(resp.endpoint)))
    => IF TokenShape(Presented(resp.header))
       THEN resp.invoked /\ resp.status # 401
       ELSE ~resp.invoked /\ resp.status = 401

\* "api_key sdk-B" on /flags, sdk-B being the key of B's stream handler: 401.
C7_Witness ==
    /\ resp.endpoint = "/flags"
    /\ resp.header = ApiKeyPrefix \o ApiKey("B")
    /\ MapGet(handlers, ApiKey("B")) = StreamHandler("B")
    /\ resp.status = 401

\* The credentials of the configuration.
ConfiguredCredentials ==
    {Environment[e].ApiKey : e \in Envs}
    \cup {Environment[e].MobileKey : e \in {x \in Envs : HasMobileKey(x)}}
    \cup {Environment[e].EnvId : e \in {x \in Envs : HasEnvId(x)}}

\* C8: in every state of the registry and on every header-authorized
\* endpoint, a configured credential presented as "api_key <credential>" and
\* presented alone gets the same answer: the same status and the same handle.
C8_PrefixMakesNoDifference ==
    \A ep \in AuthEndpoints, k \in ConfiguredCredentials :
        LET with == authorizeMethod(EndpointMap(ep), ApiKeyPrefix \o k)
            without == authorizeMethod(EndpointMap(ep), k)
        IN  /\ with.status = without.status
            /\ with.ctx = without.ctx
            /\ with.err = without.err

\* A's server key alone is let through on /flags, and so it is after
\* "api_key ".
C8_Witness ==
    /\ resp.endpoint = "/flags"
    /\ resp.header = ApiKey("A")
    /\ resp.invoked
    /\ ~authorizeMethod(handlers, ApiKeyPrefix \o ApiKey("A")).err

\* e's goroutine has come to its end after MakeCustomClient returned an
\* error.
StartedWithError(e) == err[e] /\ pc[e] = "done"

\* C13: with ignore-connection-errors set, whether or not exit-on-error is
\* set, no goroutine takes the os.Exit branch and the step that looks at the
\* error leaves the process running and goes on to register the handlers;
\* and an environment whose client failed to initialise within the wait has,
\* at the end of its goroutine, its client under its server key (and mobile
\* key and environment id when it has them), its stream handler under the
\* server key, and its event handler exactly when send-events is set.
C13_IgnoredErrorsStillRegister ==
    /\ [](IgnoreConnectionErrors =>
            \A e \in Envs :
                /\ pc[e] # "exit"
                /\ StartedWithError(e) =>
                       /\ ClientRegisteredFor(e)
                       /\ MapGet(handlers, ApiKey(e)) = StreamHandler(e)
                       /\ MapGet(eventHandlers, ApiKey(e)) =
                              IF SendEvents THEN RelayHandler(e) ELSE Nil)
    /\ [][IgnoreConnectionErrors =>
            \A e \in Envs :
                (pc[e] = "check" /\ pc'[e] # "check") =>
                    alive' /\ pc'[e] = "reg_handler"
       ]_vars

\* With both flags and send-events set, A's client failed to initialise,
\* A's goroutine is at its end, the process runs, and a request on /bulk
\* with A's server key is handed A's event handler.
C13_Witness ==
    /\ IgnoreConnectionErrors
    /\ ExitOnError
    /\ SendEvents
    /\ StartedWithError("A")
    /\ alive
    /\ resp.endpoint = "/bulk"
    /\ resp.header = ApiKey("A")
    /\ resp.invoked
    /\ resp.ctx = RelayHandler("A")

\* C16: every request on a header-authorized endpoint that is not let
\* through, because its header yields no token or because the endpoint's map
\* holds nothing under the token, is answered 401 with a body that is not
\* empty.
C16_UnauthorizedHasBody ==
    (resp.endpoint \in AuthEndpoints /\ ~resp.invoked) =>
        resp.status = 401 /\ resp.body # ""

\* ------------------------------------------------------------------------
\* Properties of the store, the adapter and the channel
\* ------------------------------------------------------------------------

\* The event the upstream client of e received in this step, if any.
Received(e) ==
    IF upLog'[e] # upLog[e] THEN upLog'[e][Len(upLog'[e])] ELSE NoEvent

\* Version v is strictly newer than what store st holds for key k.
Newer(st, k, v) == k \notin DOMAIN st \/ st[k].version < v

\* C1: when the adapter receives an upsert (a delete), it has a patch (a
\* delete) event for the key and version to publish if and only if the
\* version is strictly newer than the stored one, and exactly that event is
\* what is published on the channel next; a stale upsert or delete publishes
\* nothing and leaves the store as it was.
C1_EventIffAccepted ==
    [][\A e \in Envs :
          /\ Received(e).type \in {"patch", "delete"} =>
                LET ev == Received(e)
                IN  IF Newer(store[e], ev.key, ev.version)
                    THEN /\ pending'[e] = ev
                         /\ store'[e][ev.key].version = ev.version
                         /\ store'[e][ev.key].deleted = (ev.type = "delete")
                    ELSE /\ pending'[e] = NoEvent
                         /\ store'[e] = store[e]
          /\ pubLog'[e] # pubLog[e] =>
                /\ pending[e] # NoEvent
                /\ pubLog'[e] = Append(pubLog[e], pending[e])
                /\ pending'[e] = NoEvent
          /\ (pending[e] # NoEvent /\ pending'[e] # pending[e]) =>
                pubLog'[e] = Append(pubLog[e], pending[e])
      ]_vars

\* A patch of x at a version the store already holds was received last: no
\* event is pending, none was published for it, and an earlier patch was.
C1_Witness ==
    /\ Len(upLog["A"]) = 2
    /\ upLog["A"][2].type = "patch"
    /\ upLog["A"][2].key = "x"
    /\ upLog["A"][2].data = "q"
    /\ store["A"]["x"].version = upLog["A"][2].version
    /\ store["A"]["x"].data = "p"
    /\ pending["A"] = NoEvent
    /\ Len(pubLog["A"]) = 1
    /\ pubLog["A"][1].type = "patch"

\* What a subscriber holds after the events evs, applied in order to the
\* store st it keeps.
RECURSIVE ApplyEvents(_, _)
ApplyEvents(st, evs) ==
    IF evs = <<>> THEN st
    ELSE LET ev == Head(evs)
             next == CASE ev.type = "put"    -> StoreInit(st, ev.flags)
                       [] ev.type = "patch"  ->
                              StoreUpsert(st, ev.key, ev.version, ev.data)
                       [] ev.type = "delete" ->
                              StoreDelete(st, ev.key, ev.version)
         IN  ApplyEvents(next, Tail(evs))

\* C2: whenever the adapter has nothing left to publish, every subscriber,
\* whenever it connected, holds the live set of the environment's store
\* after applying the events it was sent to an empty store; so any two
\* subscribers of a channel hold the same live set.
C2_SubscribersConverge ==
    \A e \in Envs :
        pending[e] = NoEvent =>
            \A s \in Subs :
                subChannel[s] = e =>
                    StoreAll(ApplyEvents(EmptyStore, recv[s]))
                        = StoreAll(store[e])

\* One subscriber connected before any upstream event; the other connected
\* between the store's write of a patch and its publication, so that its
\* replay already holds the item that the patch event then brings again.
C2_Witness ==
    /\ pending["A"] = NoEvent
    /\ subChannel["s1"] = "A"
    /\ subChannel["s2"] = "A"
    /\ joined["s1"] = 0
    /\ Len(recv["s1"]) = 3
    /\ Len(recv["s2"]) = 2
    /\ recv["s2"][2].type = "patch"
    /\ recv["s2"][2].key \in DOMAIN recv["s2"][1].flags
    /\ recv["s2"][1].flags[recv["s2"][2].key].version = recv["s2"][2].version
    /\ StoreAll(store["A"]) # NoFlags

\* C9 as claimed: through init, upsert and delete the version stored for a
\* key never decreases, and an upsert or delete of a version not newer than
\* the stored one leaves the stored item unchanged.
C9_VersionNeverDecreases ==
    [][\A e \in Envs :
          /\ \A k \in (DOMAIN store[e]) \cap (DOMAIN store'[e]) :
                 store'[e][k].version >= store[e][k].version
          /\ (Received(e).type \in {"patch", "delete"}
                /\ ~Newer(store[e], Received(e).key, Received(e).version))
             => store'[e] = store[e]
      ]_vars

\* C9 amended: through upsert and delete the version stored for a key never
\* decreases and a stored key stays stored, and an upsert or delete of a
\* version not newer than the stored one leaves the stored item unchanged;
\* an init replaces the whole store, whatever the versions it held.
C9_VersionNeverDecreasesByUpsertOrDelete ==
    [][\A e \in Envs :
          /\ Received(e).type \in {"patch", "delete"} =>
                /\ \A k \in DOMAIN store[e] :
                       /\ k \in DOMAIN store'[e]
                       /\ store'[e][k].version >= store[e][k].version
                /\ ~Newer(store[e], Received(e).key, Received(e).version)
                   => store'[e] = store[e]
          /\ Received(e).type = "put" =>
                StoreAll(store'[e]) = Received(e).flags
      ]_vars

\* A delete of x at the stored version was received after a patch: the
\* item is still there, live.
C9_Witness ==
    /\ Len(upLog["A"]) = 2
    /\ upLog["A"][1].type = "patch"
    /\ upLog["A"][2].type = "delete"
    /\ upLog["A"][2].key = "x"
    /\ upLog["A"][1].key = "x"
    /\ upLog["A"][2].version = upLog["A"][1].version
    /\ "x" \in DOMAIN StoreAll(store["A"])

\* C10: a subscriber is first sent the replay put event, which carries the
\* snapshot current when it connects, then exactly the events published on
\* its channel since, in the order of publication, which is the order in
\* which the upstream events were received.
C10_ReplayThenPublishOrder ==
    /\ [](\A s \in Subs :
            subChannel[s] # "none" =>
                LET log == pubLog[subChannel[s]]
                IN  /\ Len(recv[s]) >= 1
                    /\ recv[s][1].type = "put"
                    /\ recv[s][1].replay
                    /\ Tail(recv[s]) = SubSeq(log, joined[s] + 1, Len(log))
                    /\ \A i, j \in 1..Len(log) :
                           i < j => log[i].id < log[j].id
                    /\ \A i \in 1..Len(log) :
                           log[i] = upLog[subChannel[s]][log[i].id])
    /\ [][\A s \in Subs :
            (subChannel[s] = "none" /\ subChannel'[s] # "none") =>
                recv'[s] = <<PutEvent(StoreAll(store[subChannel'[s]]), 0, TRUE)>>
       ]_vars

\* A subscriber that connected after one published event has been sent the
\* replay and then the second event, and another has been sent both.
C10_Witness ==
    /\ subChannel["s1"] = "A"
    /\ subChannel["s2"] = "A"
    /\ Len(pubLog["A"]) = 2
    /\ joined["s1"] = 0
    /\ joined["s2"] = 1
    /\ Len(recv["s1"]) = 3
    /\ Len(recv["s2"]) = 2
    /\ recv["s2"][1].flags # NoFlags
    /\ recv["s2"][2] = pubLog["A"][2]

\* The store after patch (k, v1, d1) and then patch (k, v2, d2) on store st.
PatchedTwice(st, k, v1, d1, v2, d2) ==
    StoreUpsert(StoreUpsert(st, k, v1, d1), k, v2, d2)

\* C17 as claimed: from every store, for every key and versions v1 < v2,
\* patch v1 then patch v2 and patch v2 then patch v1 both end with the key
\* at v2 with v2's payload.
C17_PatchesEndWithNewer ==
    \A e \in StreamEnvs, k \in Keys, d1 \in Payloads, d2 \in Payloads :
        \A v2 \in Versions : \A v1 \in 1..(v2 - 1) :
            LET item == [version |-> v2, deleted |-> FALSE, data |-> d2]
            IN  /\ PatchedTwice(store[e], k, v1, d1, v2, d2)[k] = item
                /\ PatchedTwice(store[e], k, v2, d2, v1, d1)[k] = item

\* C17 amended: from every store, for every key and versions v1 < v2, the
\* two orders end with the same store; it holds the key at v2 with v2's
\* payload when the starting store held nothing for the key at v2 or above,
\* and is the starting store otherwise.
C17_PatchesCommute ==
    \A e \in StreamEnvs, k \in Keys, d1 \in Payloads, d2 \in Payloads :
        \A v2 \in Versions : \A v1 \in 1..(v2 - 1) :
            LET item == [version |-> v2, deleted |-> FALSE, data |-> d2]
                forth == PatchedTwice(store[e], k, v1, d1, v2, d2)
                back == PatchedTwice(store[e], k, v2, d2, v1, d1)
            IN  /\ forth = back
                /\ IF Newer(store[e], k, v2)
                   THEN forth[k] = item
                   ELSE forth = store[e]

\* The upstream client of A received a patch of x and then a patch of x at
\* an older version: the store holds the newer one.
C17_Witness ==
    /\ Len(upLog["A"]) = 2
    /\ upLog["A"][1].type = "patch"
    /\ upLog["A"][2].type = "patch"
    /\ upLog["A"][1].key = "x"
    /\ upLog["A"][2].key = "x"
    /\ upLog["A"][2].version < upLog["A"][1].version
    /\ upLog["A"][2].data # upLog["A"][1].data
    /\ store["A"]["x"] = [version |-> upLog["A"][1].version,
                          deleted |-> FALSE, data |-> upLog["A"][1].data]

\* ------------------------------------------------------------------------
\* Properties of the channels of several environments
\* ------------------------------------------------------------------------

\* Subscriber s is connected and presented e's server key when it connected.
ConnectedWithKeyOf(s, e) ==
    subChannel[s] # "none" /\ Presented(subKey[s]) = ApiKey(e)

\* C11: a subscriber that connected to /flags with environment e's server
\* key is on e's channel; it was first sent the replay of e's store, and
\* then exactly the events published on e's channel since, each of them an
\* event e's upstream client received; and a step in which the upstream
\* client or the channel of another environment receives or publishes an
\* event sends it nothing.
C11_SubscriberSeesOnlyItsEnvironment ==
    /\ [](\A s \in Subs, e \in Envs :
            ConnectedWithKeyOf(s, e) =>
                /\ subChannel[s] = e
                /\ Len(recv[s]) >= 1
                /\ recv[s][1].replay
                /\ Tail(recv[s]) = SubSeq(pubLog[e], joined[s] + 1,
                                          Len(pubLog[e]))
                /\ \A i \in 1..Len(pubLog[e]) :
                       /\ pubLog[e][i].id \in 1..Len(upLog[e])
                       /\ pubLog[e][i] = upLog[e][pubLog[e][i].id])
    /\ [][\A s \in Subs, e \in Envs :
            /\ (ConnectedWithKeyOf(s, e) /\ subChannel'[s] # "none") =>
                   \A o \in Envs \ {e} :
                       (upLog'[o] # upLog[o] \/ pubLog'[o] # pubLog[o])
                           => recv'[s] = recv[s]
            /\ (subChannel[s] = "none" /\ subChannel'[s] # "none"
                  /\ Presented(subKey'[s]) = ApiKey(e)) =>
                   recv'[s] = <<PutEvent(StoreAll(store[e]), 0, TRUE)>>
       ]_vars

\* A subscriber connected with A's key while B's store held an item and A's
\* did not; B's channel has since published an event and A's another: the
\* subscriber was sent A's empty replay and A's event, nothing of B's.
C11_Witness ==
    /\ ConnectedWithKeyOf("s1", "A")
    /\ subKey["s1"] = ApiKeyPrefix \o ApiKey("A")
    /\ Len(pubLog["B"]) = 1
    /\ Len(pubLog["A"]) = 1
    /\ pubLog["A"][1] # pubLog["B"][1]
    /\ joined["s1"] = 0
    /\ recv["s1"] = <<PutEvent(NoFlags, 0, TRUE), pubLog["A"][1]>>
    /\ StoreAll(store["B"]) # NoFlags

\* ------------------------------------------------------------------------
\* Properties of the evaluation and goals handlers
\* ------------------------------------------------------------------------

\* The routes that end in evaluateAllFeatureFlags.
EvalRoutes == EvalEndpoints \cup {"/sdk/eval/{envId}"}

\* The request being answered carries a user that decodes, but to a user
\* without a key or with a null key: in the path of a GET, in either
\* base64url encoding, or as the body of a REPORT sent as application/json.
KeylessUser ==
    /\ req.user \in {"{name:n}", "{key:null}"}
    /\ \/ req.method = "GET" /\ req.encoding \in {"padded", "raw"}
       \/ req.method = "REPORT" /\ req.contentType = "application/json"

\* C12: on every evaluation route, for a GET and for a REPORT, a request
\* that was let through and whose user has no key or a null key is answered
\* 400 with a JSON message body, and the evaluator is not called.
C12_KeylessUserRejected ==
    (resp.endpoint \in EvalRoutes /\ resp.invoked /\ KeylessUser) =>
        /\ resp.status = 400
        /\ req.bodyType = "json message"
        /\ ~req.evaluated

\* ------------------------------------------------------------------------
\* Properties of a channel whose subscribers may not keep up
\* ------------------------------------------------------------------------

\* The adapter of e can publish the event it has.
CanPublish(e) == ENABLED PublishSlow(e, {})

\* C14: whenever the adapter has an event to publish it can publish it,
\* whatever the state of the subscribers' buffers; the publish disconnects
\* every subscriber of the channel whose buffer is full and sends it
\* nothing, then or later, unless it subscribes again; every other
\* subscriber of the channel is sent the event and stays connected, and has
\* been sent all events published since it connected, in order.
C14_PublishNeverBlocks ==
    /\ [](\A e \in Envs : pending[e] # NoEvent => CanPublish(e))
    /\ [](\A s \in Subs :
            subChannel[s] # "none" =>
                Tail(recv[s]) = SubSeq(pubLog[subChannel[s]], joined[s] + 1,
                                       Len(pubLog[subChannel[s]])))
    /\ [][\A s \in Subs :
            /\ \A e \in Envs :
                   (pubLog'[e] # pubLog[e] /\ subChannel[s] = e) =>
                       IF Full(s)
                       THEN subChannel'[s] = "none" /\ recv'[s] = recv[s]
                       ELSE /\ subChannel'[s] = e
                            /\ recv'[s] = Append(recv[s], pending[e])
            /\ (subChannel[s] = "none" /\ subChannel'[s] = "none") =>
                   recv'[s] = recv[s]
       ]_vars

\* s1 did not write out its replay and was disconnected by the first
\* publish; s2, connected from the start as well, was sent that event and
\* the one after it.
C14_Witness ==
    /\ subChannel["s1"] = "none"
    /\ joined["s1"] = 0
    /\ Len(recv["s1"]) = 1
    /\ subChannel["s2"] = "A"
    /\ joined["s2"] = 0
    /\ Len(pubLog["A"]) = 2
    /\ Tail(recv["s2"]) = pubLog["A"]

\* The routes that take the environment id from the path.
BrowserRoutes == {"/sdk/eval/{envId}", "/sdk/goals/{envId}"}

\* The request being answered carries a user that is not a user with a
\* key: one that does not decode, or decodes to a user without a key.
MalformedUser ==
    \/ /\ req.method = "GET"
       /\ req.encoding = "bad" \/ req.user # "{key:u1}"
    \/ /\ req.method = "REPORT"
       /\ req.contentType = "application/json"
       /\ req.user # "{key:u1}"

\* No handle is registered in the browser map under the environment id of
\* the request being answered.
UnknownEnvId == MapGet(clientSideClients, req.envId) = Nil

\* C15: on every browser route the environment is chosen by the environment
\* id in the path alone: when the browser map holds no handle under it the
\* answer is 404 and neither the evaluator nor the goals passthrough is
\* invoked, whatever the Authorization header; when it holds one, the
\* handler gets that handle, and an evaluation request with a malformed user
\* is answered 400.
C15_BrowserRouteByEnvId ==
    resp.endpoint \in BrowserRoutes =>
        IF UnknownEnvId
        THEN /\ resp.status = 404
             /\ ~resp.invoked
             /\ ~req.evaluated
             /\ ~req.upstream
        ELSE /\ resp.invoked
             /\ resp.ctx = clientSideClients[req.envId]
             /\ (resp.endpoint = "/sdk/eval/{envId}" /\ MalformedUser)
                    => resp.status = 400

\* The request being answered passes its route's wrapper: its header is
\* authorized on a header-authorized route, its environment id is known on
\* a browser route.
LetThrough ==
    IF resp.endpoint \in EvalEndpoints
    THEN ~authorizeMethod(EndpointMap(resp.endpoint), resp.header).err
    ELSE ~UnknownEnvId

\* C18: a REPORT on an evaluation route whose Content-Type is not exactly
\* application/json, whatever its body: if the request is let through, the
\* answer is 415 with a text body, the body is not decoded and the evaluator
\* is not called; if it is not, the answer is the 401 of the failed
\* authorization or the 404 of the unknown environment id.
C18_ReportNeedsJsonContentType ==
    (resp.endpoint \in EvalRoutes /\ req.method = "REPORT"
       /\ req.contentType # "application/json") =>
        IF LetThrough
        THEN /\ resp.invoked
             /\ resp.status = 415
             /\ req.bodyType = "text"
             /\ resp.body # ""
             /\ ~req.decoded
             /\ ~req.evaluated
             /\ ~req.panicked
        ELSE /\ ~resp.invoked
             /\ resp.status =
                    IF resp.endpoint \in EvalEndpoints THEN 401 ELSE 404
             /\ ~req.decoded
             /\ ~req.evaluated

\* A REPORT on /sdk/eval with A's server key and a user with a key, sent as
\* application/json; charset=utf-8, is answered 415.
C18_Witness ==
    /\ resp.endpoint = "/sdk/eval"
    /\ resp.header = ApiKey("A")
    /\ req.method = "REPORT"
    /\ req.contentType = "application/json; charset=utf-8"
    /\ req.user = "{key:u1}"
    /\ resp.invoked
    /\ resp.status = 415

\* C19: once upstream has answered the goals request of an environment id
\* with a response that may be cached and is still fresh, a later goals
\* request for the same environment id is answered without contacting
\* upstream.
C19_GoalsServedFromCache ==
    [][(/\ resp = NoResp
        /\ resp'.endpoint = "/sdk/goals/{envId}"
        /\ resp'.invoked
        /\ req'.envId \in goalsFresh) => ~req'.upstream]_vars

\* ------------------------------------------------------------------------
\* Properties of the event route
\* ------------------------------------------------------------------------

\* The goroutine of e has run to its end and did not leave by the error
\* branch: the client started without an error, or with one that is ignored.
StartupCompleted(e) ==
    pc[e] = "done" /\ (~err[e] \/ IgnoreConnectionErrors)

\* C20 as claimed: POST /bulk with the server key of an environment, of
\* whatever shape, is forwarded to that environment's event forwarder
\* exactly when send-events is on and the environment's goroutine completed
\* its startup; with send-events off every /bulk request is answered 401.
C20_BulkForwardedIffSendEvents ==
    resp.endpoint = "/bulk" =>
        /\ \A e \in Envs :
              Presented(resp.header) = ApiKey(e) =>
                  /\ resp.invoked <=> (SendEvents /\ StartupCompleted(e))
                  /\ resp.invoked => resp.ctx = RelayHandler(e)
        /\ ~SendEvents => ~resp.invoked /\ resp.status = 401

\* C20 amended: as above for a server key of the shape the header pattern
\* takes; a server key of another shape, such as sdk-B, is never forwarded.
\* Nothing but a server key is forwarded, and what is not forwarded is
\* answered 401.
C20_BulkForwardedIffSendEventsAndKeyShape ==
    resp.endpoint = "/bulk" =>
        /\ \A e \in Envs :
              Presented(resp.header) = ApiKey(e) =>
                  /\ resp.invoked <=> /\ SendEvents
                                      /\ StartupCompleted(e)
                                      /\ TokenShape(ApiKey(e))
                  /\ resp.invoked => resp.ctx = RelayHandler(e)
        /\ resp.invoked => \E e \in Envs : Presented(resp.header) = ApiKey(e)
        /\ ~resp.invoked => resp.status = 401
        /\ ~SendEvents => ~resp.invoked /\ resp.status = 401

\* With send-events on and A's startup completed after an ignored error,
\* POST /bulk with A's server key reaches A's event forwarder.
C20_Witness ==
    /\ resp.endpoint = "/bulk"
    /\ resp.header = ApiKey("A")
    /\ SendEvents
    /\ err["A"]
    /\ StartupCompleted("A")
    /\ resp.invoked
    /\ resp.ctx = RelayHandler("A")

\* ------------------------------------------------------------------------
\* Properties of the registry over time
\* ------------------------------------------------------------------------

\* Every key of a registry map is still a key of it after the step, and one
\* that held a handle or handler still holds one.
Kept(before, after) ==
    \A k \in DOMAIN before :
        /\ k \in DOMAIN after
        /\ before[k] # Nil => after[k] # Nil

\* C21: whatever the goroutines and the requests have done in between, a
\* request that presents a header on a route, or names an environment id on
\* a browser route, that was let through before is let through; and no step
\* takes a key out of a registry map or puts nil where a value was.
C21_RegistrationMonotonic ==
    /\ []((resp # NoResp /\ Presenting \in authorizedBefore) => resp.invoked)
    /\ [][/\ Kept(clients, clients')
          /\ Kept(mobileClients, mobileClients')
          /\ Kept(clientSideClients, clientSideClients')
          /\ Kept(handlers, handlers')
          /\ Kept(eventHandlers, eventHandlers')]_vars

\* A's server key is let through on /flags a second time, after B's
\* goroutine has assigned to every registry map as well.
C21_Witness ==
    /\ resp.endpoint = "/flags"
    /\ resp.header = ApiKey("A")
    /\ Presenting \in authorizedBefore
    /\ resp.invoked
    /\ pc["B"] = "done"
    /\ MapGet(handlers, ApiKey("B")) # Nil

\* ------------------------------------------------------------------------
\* Properties of the registry maps taken together
\* ------------------------------------------------------------------------

\* C22: in every state and for every environment, a stream handler or an
\* event forwarder is registered under the server key only if a client is
\* registered under it, so that a header let through on /flags or /bulk is
\* let through on /sdk/eval; and what is registered under the environment's
\* mobile key and under its environment id is the client registered under
\* its server key.
C22_HandlersOnlyWithClient ==
    /\ \A e \in Envs :
          /\ (MapGet(handlers, ApiKey(e)) # Nil
                \/ MapGet(eventHandlers, ApiKey(e)) # Nil)
             => MapGet(clients, ApiKey(e)) # Nil
          /\ (HasMobileKey(e)
                /\ MapGet(mobileClients, Environment[e].MobileKey) # Nil)
             => MapGet(mobileClients, Environment[e].MobileKey)
                    = MapGet(clients, ApiKey(e))
          /\ (HasEnvId(e)
                /\ MapGet(clientSideClients, Environment[e].EnvId) # Nil)
             => MapGet(clientSideClients, Environment[e].EnvId)
                    = MapGet(clients, ApiKey(e))
    /\ \A h \in Headers :
          (~authorizeMethod(handlers, h).err
             \/ ~authorizeMethod(eventHandlers, h).err)
          => ~authorizeMethod(clients, h).err

\* A's goroutine has registered its stream handler and its event forwarder,
\* and A's mobile key and environment id hold the client of A's server key.
C22_Witness ==
    /\ MapGet(handlers, ApiKey("A")) = StreamHandler("A")
    /\ MapGet(eventHandlers, ApiKey("A")) = RelayHandler("A")
    /\ MapGet(clients, ApiKey("A")) = Client("A")
    /\ MapGet(mobileClients, Environment.A.MobileKey) = Client("A")
    /\ MapGet(clientSideClients, Environment.A.EnvId) = Client("A")
    /\ ~authorizeMethod(handlers, ApiKey("A")).err

====
